---- MODULE Spec2Model ----
(***************************************************************************)
(* Model of lambda_function.py: an AWS Lambda backend that authenticates a *)
(* request with Basic credentials held in Secrets Manager, confines the    *)
(* user to a root folder of one S3 bucket and dispatches on (path suffix,  *)
(* method) to upload, download, list, zip-download and delete operations.  *)
(*                                                                         *)
(* Python str values are TLA+ strings; Python bytes values are sequences   *)
(* of numbers in 0..255; None is the empty tuple and a present value x is  *)
(* the one-element tuple <<x>>.                                            *)
(***************************************************************************)
EXTENDS Integers, Sequences, FiniteSets, TLC

(***************************************************************************)
(* Python string primitives used by the handler.                          *)
(***************************************************************************)
None == << >>

Some(x) == << x >>

\* Python truthiness of an optional string: None and "" are both falsy.
Truthy(opt) == opt # None /\ opt[1] # ""

CharAt(s, i) == SubSeq(s, i, i)

\* s.startswith(p)
StartsWith(s, p) == Len(p) <= Len(s) /\ SubSeq(s, 1, Len(p)) = p

\* s.endswith(p)
EndsWith(s, p) == Len(p) <= Len(s) /\ SubSeq(s, Len(s) - Len(p) + 1, Len(s)) = p

\* c in s, for a one-character c
Contains(s, c) == \E i \in 1..Len(s) : CharAt(s, i) = c

\* s[n:]
DropFirst(s, n) == SubSeq(s, n + 1, Len(s))

\* s.find(c) + 1 for a one-character c that occurs in s
FirstIndex(s, c) == CHOOSE i \in 1..Len(s) :
                       CharAt(s, i) = c /\ \A j \in 1..(i - 1) : CharAt(s, j) # c

\* s.replace(old, "", 1): the first occurrence of old is removed
ReplaceFirst(s, old) ==
    LET hits == {i \in 1..(Len(s) - Len(old) + 1) : SubSeq(s, i, i + Len(old) - 1) = old}
    IN  IF old = "" \/ hits = {} THEN s
        ELSE LET i == CHOOSE h \in hits : \A g \in hits : h <= g
             IN  SubSeq(s, 1, i - 1) \o SubSeq(s, i + Len(old), Len(s))

(***************************************************************************)
(* Character codes.  Printable ASCII in code order: codes 32 to 95 and     *)
(* codes 97 to 126 (code 96, the backtick, cannot be written in a string   *)
(* of this notation and is left out of the alphabet).                      *)
(***************************************************************************)
AsciiLow == " !\"#$%&'()*+,-./0123456789:;<=>?@ABCDEFGHIJKLMNOPQRSTUVWXYZ[\\]^_"

AsciiHigh == "abcdefghijklmnopqrstuvwxyz{|}~"

Ord(c) ==
    IF \E i \in 1..Len(AsciiLow) : CharAt(AsciiLow, i) = c
    THEN 31 + (CHOOSE i \in 1..Len(AsciiLow) : CharAt(AsciiLow, i) = c)
    ELSE 96 + (CHOOSE i \in 1..Len(AsciiHigh) : CharAt(AsciiHigh, i) = c)

Chr(n) == IF n <= 95 THEN CharAt(AsciiLow, n - 31) ELSE CharAt(AsciiHigh, n - 96)

IsPrintable(n) == (n >= 32 /\ n <= 95) \/ (n >= 97 /\ n <= 126)

\* bytes.decode(): UTF-8.  A byte sequence of printable ASCII decodes to the
\* string of its characters.  Every other sequence is reported as failing:
\* a byte of 128 or more that is not valid UTF-8 raises UnicodeDecodeError,
\* and a text holding any other character can match no user name or
\* password of the directories below, which are printable ASCII.
RECURSIVE BytesToStr(_)
BytesToStr(bs) == IF bs = << >> THEN "" ELSE Chr(Head(bs)) \o BytesToStr(Tail(bs))

Utf8Decode(bs) ==
    IF \A i \in 1..Len(bs) : IsPrintable(bs[i])
    THEN [ok |-> TRUE, text |-> BytesToStr(bs)]
    ELSE [ok |-> FALSE, text |-> ""]

\* str.encode() of a printable ASCII string
StrToBytes(s) == [i \in 1..Len(s) |-> Ord(CharAt(s, i))]

\* Lexicographic order of keys by character code (S3 lists in UTF-8 binary order).
RECURSIVE KeyLess(_, _)
KeyLess(s, t) ==
    IF t = "" THEN FALSE
    ELSE IF s = "" THEN TRUE
    ELSE IF Head(s) = Head(t) THEN KeyLess(Tail(s), Tail(t))
    ELSE Ord(Head(s)) < Ord(Head(t))

(***************************************************************************)
(* base64.  b64encode is the standard alphabet with '=' padding.           *)
(* b64decode(s) is binascii.a2b_base64 in its default, non-strict mode:    *)
(* characters outside the alphabet are skipped, a complete pad sequence    *)
(* ends the parse (what follows is ignored), and a quad left incomplete    *)
(* at the end of the input raises binascii.Error.                          *)
(***************************************************************************)
B64Alphabet == "ABCDEFGHIJKLMNOPQRSTUVWXYZabcdefghijklmnopqrstuvwxyz0123456789+/"

B64Char(v) == CharAt(B64Alphabet, v + 1)

\* table_a2b_base64: the 6-bit value of c, or 64 for a character outside the alphabet
B64Val(c) ==
    IF \E i \in 1..Len(B64Alphabet) : CharAt(B64Alphabet, i) = c
    THEN (CHOOSE i \in 1..Len(B64Alphabet) : CharAt(B64Alphabet, i) = c) - 1
    ELSE 64

RECURSIVE B64Encode(_)
B64Encode(bs) ==
    IF bs = << >> THEN ""
    ELSE IF Len(bs) = 1 THEN
        B64Char(bs[1] \div 4) \o B64Char((bs[1] % 4) * 16) \o "=="
    ELSE IF Len(bs) = 2 THEN
        B64Char(bs[1] \div 4) \o B64Char((bs[1] % 4) * 16 + bs[2] \div 16)
            \o B64Char((bs[2] % 16) * 4) \o "="
    ELSE
        B64Char(bs[1] \div 4) \o B64Char((bs[1] % 4) * 16 + bs[2] \div 16)
            \o B64Char((bs[2] % 16) * 4 + bs[3] \div 64) \o B64Char(bs[3] % 64)
            \o B64Encode(SubSeq(bs, 4, Len(bs)))

\* The decoder's loop from input position i on, with quad_pos, leftchar and
\* pads as in binascii.c and out the bytes produced so far.
RECURSIVE A2bLoop(_, _, _, _, _, _)
A2bLoop(s, i, quad_pos, leftchar, pads, out) ==
    IF i > Len(s) THEN
        IF quad_pos = 1 THEN
            [ok |-> FALSE, data |-> << >>,
             err |-> "Invalid base64-encoded string: number of data characters ("
                     \o ToString((Len(out) \div 3) * 4 + 1)
                     \o ") cannot be 1 more than a multiple of 4"]
        ELSE IF quad_pos # 0 THEN [ok |-> FALSE, data |-> << >>, err |-> "Incorrect padding"]
        ELSE [ok |-> TRUE, data |-> out, err |-> ""]
    ELSE IF CharAt(s, i) = "=" THEN
        IF quad_pos >= 2 /\ quad_pos + pads + 1 >= 4
        THEN [ok |-> TRUE, data |-> out, err |-> ""]
        ELSE A2bLoop(s, i + 1, quad_pos, leftchar,
                     IF quad_pos >= 2 THEN pads + 1 ELSE pads, out)
    ELSE LET v == B64Val(CharAt(s, i)) IN
        IF v >= 64 THEN A2bLoop(s, i + 1, quad_pos, leftchar, pads, out)
        ELSE IF quad_pos = 0 THEN A2bLoop(s, i + 1, 1, v, 0, out)
        ELSE IF quad_pos = 1 THEN
            A2bLoop(s, i + 1, 2, v % 16, 0, Append(out, leftchar * 4 + v \div 16))
        ELSE IF quad_pos = 2 THEN
            A2bLoop(s, i + 1, 3, v % 4, 0, Append(out, leftchar * 16 + v \div 4))
        ELSE A2bLoop(s, i + 1, 0, 0, 0, Append(out, leftchar * 64 + v))

B64Decode(s) == A2bLoop(s, 1, 0, 0, 0, << >>)

(***************************************************************************)
(* Bounds of the model.                                                    *)
(***************************************************************************)
\* Invocations served by the process in one behaviour.
MaxRequests == 2

\* The page size of list_objects_v2 (1000 in S3, scaled down): a listing
\* returns the first MaxKeys entries in key order and the handler never
\* asks for the next page.
MaxKeys == 3

\* SpecRace: invocations of one process whose steps interleave.
NumInvocations == 2

(***************************************************************************)
(* The object store.  A bucket is a function from keys to bytes; the       *)
(* store is taken to answer every call (no throttling, no outage).         *)
(***************************************************************************)
Range(f) == {f[i] : i \in DOMAIN f}

put_object(b, key, body) ==
    [k \in (DOMAIN b) \cup {key} |-> IF k = key THEN body ELSE b[k]]

delete_object(b, key) == [k \in (DOMAIN b) \ {key} |-> b[k]]

delete_objects(b, keys) == [k \in (DOMAIN b) \ Range(keys) |-> b[k]]

\* The strings of S in key order.
RECURSIVE SortKeys(_)
SortKeys(S) ==
    IF S = {} THEN << >>
    ELSE LET m == CHOOSE k \in S : \A o \in S \ {k} : KeyLess(k, o)
         IN  << m >> \o SortKeys(S \ {m})

FirstPage(seq) == IF Len(seq) <= MaxKeys THEN seq ELSE SubSeq(seq, 1, MaxKeys)

\* list_objects_v2(Prefix=prefix): resp["Contents"] as the sequence of its
\* keys, empty when the response has no "Contents".
list_objects_v2(b, prefix) ==
    FirstPage(SortKeys({k \in DOMAIN b : StartsWith(k, prefix)}))

\* With Delimiter="/", a key that has a "/" after the listing prefix is
\* rolled up into the common prefix that ends at that "/".
IsRolledUp(k, prefix) == Contains(DropFirst(k, Len(prefix)), "/")

RollUp(k, prefix) ==
    LET rest == DropFirst(k, Len(prefix))
    IN  IF IsRolledUp(k, prefix)
        THEN prefix \o SubSeq(rest, 1, FirstIndex(rest, "/"))
        ELSE k

\* list_objects_v2(Prefix=prefix, Delimiter="/"): resp["CommonPrefixes"] as
\* the sequence of its prefixes.  Keys and common prefixes share the page.
list_common_prefixes(b, prefix) ==
    LET under   == {k \in DOMAIN b : StartsWith(k, prefix)}
        entries == FirstPage(SortKeys({RollUp(k, prefix) : k \in under}))
    IN  SelectSeq(entries,
                  LAMBDA e : \E k \in under : IsRolledUp(k, prefix) /\ RollUp(k, prefix) = e)

(***************************************************************************)
(* The secret store holds the user directory: a function from user names   *)
(* to [password, root_folder].  It is taken to answer every fetch.         *)
(* The process-wide cache _cached_users is None or Some(directory).        *)
(***************************************************************************)
\* `if _cached_users:` -- None and the empty dict are both falsy.
CacheHit(cache) == cache # None /\ DOMAIN cache[1] # {}

\* An assignment that would update the cache in place instead: the entries
\* of the directory just fetched laid over the entries already cached.
MergeCache(cache, fetchedDir) ==
    IF cache = None THEN Some(fetchedDir) ELSE Some(fetchedDir @@ cache[1])

\* `_cached_users = json.loads(resp["SecretString"])`: one assignment that
\* replaces the cache by the directory just fetched.
StoreCache(cache, fetchedDir) == Some(fetchedDir)

\* get_users(), run without interruption: the directory returned, the cache
\* afterwards, and whether the secret store was fetched.
get_users(cache, store) ==
    IF CacheHit(cache)
    THEN [users |-> cache[1], cache |-> cache, fetched |-> FALSE]
    ELSE [users |-> StoreCache(cache, store)[1], cache |-> StoreCache(cache, store),
          fetched |-> TRUE]

Unauthenticated(cache) ==
    [user |-> None, folder |-> None, cache |-> cache, fetched |-> FALSE, users |-> None]

\* The try block of authenticate: the header decoded and split at the first
\* ":"; ok is FALSE where the code returns (None, None) before any lookup.
Credentials(event) ==
    IF ~Truthy(event.auth) \/ ~StartsWith(event.auth[1], "Basic ")
    THEN [ok |-> FALSE, username |-> "", password |-> ""]
    ELSE LET dec == B64Decode(DropFirst(event.auth[1], FirstIndex(event.auth[1], " ")))
             raw == Utf8Decode(dec.data)
         IN  IF ~dec.ok \/ ~raw.ok \/ ~Contains(raw.text, ":")
             THEN [ok |-> FALSE, username |-> "", password |-> ""]
             ELSE [ok |-> TRUE,
                   username |-> SubSeq(raw.text, 1, FirstIndex(raw.text, ":") - 1),
                   password |-> DropFirst(raw.text, FirstIndex(raw.text, ":"))]

\* A lookup that would accept any password for a known user.
PasswordMatchesNameOnly(users, username, password) == username \in DOMAIN users

\* `username in users and users[username]["password"] == password`
PasswordMatches(users, username, password) ==
    username \in DOMAIN users /\ users[username].password = password

\* The last three lines of authenticate: (user, folder) from the directory.
Decide(users, username, password) ==
    IF PasswordMatches(users, username, password)
    THEN [user |-> Some(username), folder |-> Some(users[username].root_folder)]
    ELSE [user |-> None, folder |-> None]

\* authenticate(event): (user, folder) with the effect on the cache; users
\* is the directory consulted, None when the lookup is not reached.
authenticate(event, cache, store) ==
    LET c == Credentials(event)
        g == get_users(cache, store)
    IN  IF ~c.ok THEN Unauthenticated(cache)
        ELSE Decide(g.users, c.username, c.password)
             @@ [cache |-> g.cache, fetched |-> g.fetched, users |-> Some(g.users)]

(***************************************************************************)
(* Responses.                                                              *)
(***************************************************************************)
CORS_HEADERS ==
    ("Access-Control-Allow-Origin" :> "*")
    @@ ("Access-Control-Allow-Methods" :> "GET, PUT, DELETE, OPTIONS")
    @@ ("Access-Control-Allow-Headers" :> "Content-Type")
    @@ ("Access-Control-Expose-Headers" :> "*")

\* response(status_code, body, is_base64, content_type); content_type is
\* optional, body is a string, or bytes when is_base64.
response(status_code, body, is_base64, content_type) ==
    [statusCode |-> status_code,
     headers |-> IF Truthy(content_type)
                 THEN ("Content-Type" :> content_type[1]) @@ CORS_HEADERS
                 ELSE CORS_HEADERS,
     body |-> IF is_base64 THEN B64Encode(body) ELSE body,
     isBase64Encoded |-> is_base64]

\* json.dumps({"error": msg}) for a message that needs no escaping
JsonError(msg) == "{\"error\": \"" \o msg \o "\"}"

\* json.dumps(names) for a list of strings that need no escaping
RECURSIVE JsonItems(_)
JsonItems(names) ==
    IF names = << >> THEN ""
    ELSE "\"" \o Head(names) \o "\""
         \o (IF Len(names) > 1 THEN ", " ELSE "") \o JsonItems(Tail(names))

JsonList(names) == "[" \o JsonItems(names) \o "]"

ErrorResponse(status_code, msg) ==
    response(status_code, JsonError(msg), FALSE, Some("application/json"))

\* A key taken from the request as it is, with no root folder in front.
NormalizeKeyRaw(folder, filename) == filename

\* normalize_key(folder, filename)
normalize_key(folder, filename) ==
    IF StartsWith(filename, folder) THEN filename ELSE folder \o filename

(***************************************************************************)
(* The operations.  Each takes the request, the authenticated root folder  *)
(* and the bucket, and yields the response, the storage calls made (op,    *)
(* the key or prefix passed, the keys listed or submitted), the bucket     *)
(* afterwards and, for /list-files, the local list `files`.                *)
(***************************************************************************)
Call(op, arg, keys) == [op |-> op, arg |-> arg, keys |-> keys]

Result(resp, calls, b, files) ==
    [resp |-> resp, calls |-> calls, bucket |-> b, files |-> files]

\* `x or ""`
OrEmpty(opt) == IF Truthy(opt) THEN opt[1] ELSE ""

\* A placeholder that would replace every empty body, folder marker or not.
StoredContentAlwaysPlaceholder(filename, file_content) ==
    IF file_content = << >> THEN << 32 >> ELSE file_content

\* The body stored by /put: a single space stands in for the empty body of
\* a folder marker.
StoredContent(filename, file_content) ==
    IF EndsWith(filename, "/") /\ file_content = << >> THEN << 32 >> ELSE file_content

PutBranch(event, folder, b) ==
    IF ~Truthy(event.filename)
    THEN Result(ErrorResponse(400, "Missing filename"), << >>, b, << >>)
    ELSE LET filename == event.filename[1]
             dec      == B64Decode(OrEmpty(event.body))
             key      == normalize_key(folder, filename)
             content  == StoredContent(filename, dec.data)
         IN  IF ~dec.ok
             THEN Result(ErrorResponse(500, dec.err), << >>, b, << >>)
             ELSE Result(response(200,
                                  IF EndsWith(filename, "/")
                                  THEN "Folder \"" \o filename \o "\" created"
                                  ELSE "File \"" \o filename \o "\" uploaded",
                                  FALSE, None),
                         << Call("put_object", key, << >>) >>,
                         put_object(b, key, content), << >>)

GetBranch(event, folder, b) ==
    LET key == normalize_key(folder, event.filename[1])
    IN  IF key \in DOMAIN b
        THEN Result(response(200, b[key], TRUE, Some("application/octet-stream")),
                    << Call("get_object", key, << >>) >>, b, << >>)
        ELSE Result(ErrorResponse(404, "File not found"),
                    << Call("get_object", key, << >>) >>, b, << >>)

ListBranch(event, folder, b) ==
    LET prefixes == list_common_prefixes(b, folder)
        folders  == [i \in 1..Len(prefixes) |-> ReplaceFirst(prefixes[i], folder)]
    IN  Result(response(200, JsonList(folders), FALSE, Some("application/json")),
               << Call("list_objects_v2", folder, prefixes) >>, b, << >>)

\* The loop body of /list-files for one listed key: the name appended to
\* `files`, or nothing.
ListedName(objKey, folder, prefix) ==
    LET key == ReplaceFirst(objKey, folder)
    IN  IF ~Truthy(prefix)
        THEN IF ~Contains(key, "/") THEN << key >> ELSE << >>
        ELSE LET subpath == DropFirst(key, Len(prefix[1]))
             IN  IF subpath # "" /\ ~Contains(subpath, "/") THEN << subpath >> ELSE << >>

RECURSIVE ListedNames(_, _, _)
ListedNames(keys, folder, prefix) ==
    IF keys = << >> THEN << >>
    ELSE ListedName(Head(keys), folder, prefix) \o ListedNames(Tail(keys), folder, prefix)

ListFilesBranch(event, folder, b) ==
    LET search_prefix == normalize_key(folder, OrEmpty(event.prefix))
        contents      == list_objects_v2(b, search_prefix)
        files         == ListedNames(contents, folder, event.prefix)
    IN  Result(response(200, JsonList(files), FALSE, Some("application/json")),
               << Call("list_objects_v2", search_prefix, contents) >>, b, files)

\* The archive written by zipfile, reduced to its payload: each entry's
\* name and data in order (headers, checksums and the central directory of
\* the container are left out).
RECURSIVE ZipArchive(_, _, _)
ZipArchive(keys, folder, b) ==
    IF keys = << >> THEN << >>
    ELSE StrToBytes(ReplaceFirst(Head(keys), folder)) \o b[Head(keys)]
         \o ZipArchive(Tail(keys), folder, b)

DownloadFolderBranch(event, folder, b) ==
    LET search_prefix == normalize_key(folder, event.prefix[1])
        contents      == list_objects_v2(b, search_prefix)
    IN  Result(response(200, ZipArchive(contents, folder, b), TRUE, Some("application/zip")),
               << Call("list_objects_v2", search_prefix, contents) >>
                   \o [i \in 1..Len(contents) |-> Call("get_object", contents[i], << >>)],
               b, << >>)

DeleteBranch(event, folder, b) ==
    LET key == normalize_key(folder, event.filename[1])
    IN  Result(response(200, "File \"" \o event.filename[1] \o "\" deleted", FALSE, None),
               << Call("delete_object", key, << >>) >>, delete_object(b, key), << >>)

\* A folder delete that would submit its batch delete even for an empty listing.
DeleteFolderBranchAlways(event, folder, b) ==
    LET search_prefix == normalize_key(folder, event.prefix[1])
        contents      == list_objects_v2(b, search_prefix)
        msg           == "Folder \"" \o event.prefix[1] \o "\" deleted"
    IN  Result(response(200, msg, FALSE, None),
               << Call("list_objects_v2", search_prefix, contents),
                  Call("delete_objects", "", contents) >>,
               delete_objects(b, contents), << >>)

DeleteFolderBranch(event, folder, b) ==
    LET search_prefix == normalize_key(folder, event.prefix[1])
        contents      == list_objects_v2(b, search_prefix)
        msg           == "Folder \"" \o event.prefix[1] \o "\" deleted"
    IN  IF contents # << >>
        THEN Result(response(200, msg, FALSE, None),
                    << Call("list_objects_v2", search_prefix, contents),
                       Call("delete_objects", "", contents) >>,
                    delete_objects(b, contents), << >>)
        ELSE Result(response(200, msg, FALSE, None),
                    << Call("list_objects_v2", search_prefix, contents) >>, b, << >>)

\* A fallback that would answer 400 where the handler answers 405.
UnsupportedBranchBadRequest(event, folder, b) ==
    Result(ErrorResponse(400, "Unsupported operation"), << >>, b, << >>)

UnsupportedBranch(event, folder, b) ==
    Result(ErrorResponse(405, "Unsupported operation"), << >>, b, << >>)

\* The if/elif chain of the handler: the branch a request takes once it is
\* authenticated.
Route(event) ==
    IF EndsWith(event.path, "/put") /\ event.httpMethod = "PUT" THEN "put"
    ELSE IF EndsWith(event.path, "/get") /\ event.httpMethod = "GET"
            /\ Truthy(event.filename) THEN "get"
    ELSE IF EndsWith(event.path, "/list") /\ event.httpMethod = "GET" THEN "list"
    ELSE IF EndsWith(event.path, "/list-files") /\ event.httpMethod = "GET" THEN "list-files"
    ELSE IF EndsWith(event.path, "/download-folder") /\ event.httpMethod = "GET"
            /\ Truthy(event.prefix) THEN "download-folder"
    ELSE IF EndsWith(event.path, "/delete") /\ event.httpMethod = "DELETE"
            /\ Truthy(event.filename) THEN "delete"
    ELSE IF EndsWith(event.path, "/delete-folder") /\ event.httpMethod = "DELETE"
            /\ Truthy(event.prefix) THEN "delete-folder"
    ELSE "unsupported"

Dispatch(event, folder, b) ==
    CASE Route(event) = "put"             -> PutBranch(event, folder, b)
      [] Route(event) = "get"             -> GetBranch(event, folder, b)
      [] Route(event) = "list"            -> ListBranch(event, folder, b)
      [] Route(event) = "list-files"      -> ListFilesBranch(event, folder, b)
      [] Route(event) = "download-folder" -> DownloadFolderBranch(event, folder, b)
      [] Route(event) = "delete"          -> DeleteBranch(event, folder, b)
      [] Route(event) = "delete-folder"   -> DeleteFolderBranch(event, folder, b)
      [] OTHER                            -> UnsupportedBranch(event, folder, b)

\* A preflight test that would compare against the lower-case method name.
IsPreflightLower(event) == event.httpMethod = "options"

\* `if method == "OPTIONS"`
IsPreflight(event) == event.httpMethod = "OPTIONS"

\* `if not user`
NotUser(user) == ~Truthy(user)

\* A refusal that would answer 403 where the handler answers 401.
ForbiddenResponse == ErrorResponse(403, "Forbidden")

\* The answer to a request that is not authenticated.
UnauthorizedResponse == ErrorResponse(401, "Unauthorized")

\* lambda_handler(event, context) run against bucket b, the cache and the
\* secret store: the operation's result with the branch taken, the outcome
\* of authenticate and the cache afterwards.
lambda_handler(event, b, cache, store) ==
    IF IsPreflight(event)
    THEN Result(response(200, "", FALSE, None), << >>, b, << >>)
         @@ [route |-> "options", authenticated |-> FALSE]
         @@ Unauthenticated(cache)
    ELSE LET a == authenticate(event, cache, store)
         IN  IF NotUser(a.user)
             THEN Result(UnauthorizedResponse, << >>, b, << >>)
                  @@ [route |-> "unauthorized", authenticated |-> FALSE] @@ a
             ELSE Dispatch(event, a.folder[1], b)
                  @@ [route |-> Route(event), authenticated |-> TRUE] @@ a

(***************************************************************************)
(* The inputs of the model: the directories the secret may hold, the       *)
(* objects the bucket may hold when the process starts, and the requests.  *)
(***************************************************************************)
User(password, root_folder) == [password |-> password, root_folder |-> root_folder]

DirMain ==
    ("a" :> User("p", "a/")) @@ ("b" :> User("q", "b/")) @@ ("a:" :> User("p", "c/"))

\* The secret after a rotation: a's password is changed and the others are gone.
DirRotated == ("a" :> User("r", "a/"))

\* The secret before any user is enrolled: the JSON document {}.
DirEmpty == << >>

Directories == {DirMain, DirRotated, DirEmpty}

BucketEmpty == << >>

BucketSeeded ==
    ("a/f" :> << 104, 105 >>) @@ ("a/s/" :> << 32 >>) @@ ("a/s/f" :> << 104 >>)
    @@ ("a/s/t/f" :> << >>) @@ ("b/f" :> << 113 >>) @@ ("b/s/f" :> << >>)

InitialBuckets == {BucketEmpty, BucketSeeded}

\* The Authorization header a client builds from a user name and a password.
BasicHeader(username, password) ==
    "Basic " \o B64Encode(StrToBytes(username \o ":" \o password))

\* Headers of the two users the storage requests are made by.
UserHeaders == {Some(BasicHeader("a", "p")), Some(BasicHeader("b", "q"))}

\* Headers that authenticate nobody under any directory: missing, empty,
\* another scheme, a quad cut short, not UTF-8, no ":", unknown user,
\* wrong password.
BadHeaders ==
    {None, Some(""), Some("Bearer " \o B64Encode(StrToBytes("a:p"))),
     Some("Basic YTp"), Some("Basic /w=="),
     Some("Basic " \o B64Encode(StrToBytes("ap"))),
     Some(BasicHeader("z", "p")), Some(BasicHeader("a", "q"))}

\* Further headers: the rotated password, the user whose name holds ":",
\* and encodings of a:p that are not the canonical one (a character outside
\* the alphabet, data after the padding, a stray pad).
OtherHeaders ==
    {Some(BasicHeader("a", "r")), Some(BasicHeader("a:", "p")),
     Some(BasicHeader("a", "p") \o "!"), Some("Basic =" \o B64Encode(StrToBytes("a:p"))),
     Some("Basic " \o B64Encode(StrToBytes("a:")) \o "cA==")}

AllHeaders == UserHeaders \cup BadHeaders \cup OtherHeaders

\* The headers the race below is run with: each reaches get_users.
RaceHeaders == {BasicHeader("a", "p"), BasicHeader("a", "r"), BasicHeader("b", "q")}

Event(method, path, auth, filename, prefix, body) ==
    [httpMethod |-> method, path |-> path, auth |-> auth,
     filename |-> filename, prefix |-> prefix, body |-> body]

\* The (method, path) pairs of the routing surface, and some outside it.
Routes ==
    {<< "PUT", "/put" >>, << "GET", "/get" >>, << "GET", "/list" >>,
     << "GET", "/list-files" >>, << "GET", "/download-folder" >>,
     << "DELETE", "/delete" >>, << "DELETE", "/delete-folder" >>}

OffRoutes ==
    {<< "POST", "/put" >>, << "GET", "/put" >>, << "PUT", "/get" >>,
     << "DELETE", "/list" >>, << "GET", "/" >>, << "GET", "/api/v1/get" >>,
     << "DELETE", "/delete-folder/delete" >>}

Filenames == {"f", "s/", "s/f", "a/f"}

MissingOrEmpty == {None, Some("")}

Payloads == {<< >>, << 104, 105 >>}

Prefixes == {"s/", "s/t/", "zz/", "a/", "a/s/"}

(***************************************************************************)
(* The requests, by the operation they are aimed at.                       *)
(***************************************************************************)
\* A preflight request, on every path, with and without credentials.
OptionsEvents ==
    {Event("OPTIONS", r[2], h, Some("f"), Some("s/"), None) :
        r \in Routes \cup OffRoutes, h \in {None, Some(BasicHeader("a", "p"))}}

\* Any header, on a request that needs nothing else.
AuthEvents == {Event("GET", "/list", h, None, None, None) : h \in AllHeaders}

\* A header that authenticates nobody, on every route.
UnauthorizedEvents ==
    {Event(r[1], r[2], h, Some("f"), Some("s/"), Some("aGk=")) :
        h \in BadHeaders, r \in Routes \cup OffRoutes}

\* An upload, with the bytes the client encoded into its body.
Uploads ==
    {[event |-> Event("PUT", "/put", h, Some(f), None,
                      IF B = << >> THEN None ELSE Some(B64Encode(B))),
      payload |-> Some(B)] : h \in UserHeaders, f \in Filenames, B \in Payloads}

\* An upload whose body is not base64 (a quad cut short).
PutMalformedEvents ==
    {Event("PUT", "/put", h, Some("f"), None, Some(body)) :
        h \in UserHeaders, body \in {"aGk", "a"}}

GetEvents ==
    {Event("GET", "/get", h, Some(f), None, None) :
        h \in UserHeaders, f \in Filenames \cup {"zz"}}

ListEvents == {Event("GET", "/list", h, None, None, None) : h \in UserHeaders}

ListFilesEvents ==
    {Event("GET", "/list-files", h, None, p, None) :
        h \in UserHeaders, p \in MissingOrEmpty \cup {Some(x) : x \in Prefixes}}

DownloadFolderEvents ==
    {Event("GET", "/download-folder", h, None, Some(p), None) :
        h \in UserHeaders, p \in Prefixes}

DeleteEvents ==
    {Event("DELETE", "/delete", h, Some(f), None, None) :
        h \in UserHeaders, f \in Filenames \cup {"zz"}}

DeleteFolderEvents ==
    {Event("DELETE", "/delete-folder", h, None, Some(p), None) :
        h \in UserHeaders, p \in Prefixes}

\* A route whose required parameter is missing or empty.
MissingParameterEvents ==
    {Event(r[1], r[2], h, m, m, Some("aGk=")) :
        h \in UserHeaders, r \in Routes, m \in MissingOrEmpty}

\* A (method, path) pair outside the routing surface.
OffRouteEvents ==
    {Event(r[1], r[2], h, Some("f"), Some("s/"), Some("aGk=")) :
        h \in UserHeaders, r \in OffRoutes}

(***************************************************************************)
(* The state.                                                              *)
(***************************************************************************)
VARIABLES
    secret,         \* the directory the secret store holds now
    cached_users,   \* _cached_users
    bucket,         \* the objects of BUCKET_NAME
    last,           \* None, or Some of the invocation that has just ended
    nreq,           \* invocations so far
    fetches,        \* get_secret_value calls so far
    firstFetch,     \* None, or Some of the directory the first fetch returned
    uploaded,       \* key -> the last upload of it that no write or delete followed
    inv,            \* SpecRace: each interleaved invocation's position and locals
    returned        \* SpecRace: the directories get_secret_value has returned

vars == << secret, cached_users, bucket, last, nreq, fetches, firstFetch, uploaded,
           inv, returned >>

\* The keys a sequence of storage calls wrote or deleted.
Touched(calls) ==
    {calls[i].arg : i \in {j \in 1..Len(calls) :
                              calls[j].op \in {"put_object", "delete_object"}}}
    \cup UNION {Range(calls[i].keys) : i \in {j \in 1..Len(calls) :
                                                 calls[j].op = "delete_objects"}}

\* One invocation of the handler, from the event to the response.  payload
\* is Some of the bytes the client encoded into the body, None otherwise.
Invoke(event, payload) ==
    /\ last = None
    /\ nreq < MaxRequests
    /\ \E out \in {lambda_handler(event, bucket, cached_users, secret)} :
       LET kept == [k \in (DOMAIN uploaded) \ Touched(out.calls) |-> uploaded[k]]
       IN  /\ bucket' = out.bucket
           /\ cached_users' = out.cache
           /\ fetches' = fetches + (IF out.fetched THEN 1 ELSE 0)
           /\ firstFetch' = IF out.fetched /\ firstFetch = None
                            THEN Some(secret) ELSE firstFetch
           /\ uploaded' = IF out.route = "put" /\ out.calls # << >>
                          THEN (out.calls[1].arg :>
                                    [user |-> out.user[1], filename |-> event.filename[1],
                                     data |-> payload[1]]) @@ kept
                          ELSE kept
           /\ last' = Some([event |-> event, resp |-> out.resp, calls |-> out.calls,
                            files |-> out.files, route |-> out.route,
                            authenticated |-> out.authenticated,
                            user |-> out.user, folder |-> out.folder,
                            users |-> out.users, fetched |-> out.fetched,
                            directory |-> IF CacheHit(cached_users)
                                          THEN cached_users[1] ELSE secret])
    /\ nreq' = nreq + 1
    /\ UNCHANGED << secret, inv, returned >>

OptionsRequest == \E e \in OptionsEvents : Invoke(e, None)

AuthRequest == \E e \in AuthEvents : Invoke(e, None)

UnauthorizedRequest == \E e \in UnauthorizedEvents : Invoke(e, None)

PutRequest == \E u \in Uploads : Invoke(u.event, u.payload)

PutMalformedRequest == \E e \in PutMalformedEvents : Invoke(e, None)

GetRequest == \E e \in GetEvents : Invoke(e, None)

ListRequest == \E e \in ListEvents : Invoke(e, None)

ListFilesRequest == \E e \in ListFilesEvents : Invoke(e, None)

DownloadFolderRequest == \E e \in DownloadFolderEvents : Invoke(e, None)

DeleteRequest == \E e \in DeleteEvents : Invoke(e, None)

DeleteFolderRequest == \E e \in DeleteFolderEvents : Invoke(e, None)

MissingParameterRequest == \E e \in MissingParameterEvents : Invoke(e, None)

OffRouteRequest == \E e \in OffRouteEvents : Invoke(e, None)

\* The invocation has returned; the process waits for the next event.
Return ==
    /\ last # None
    /\ last' = None
    /\ UNCHANGED << secret, cached_users, bucket, nreq, fetches, firstFetch, uploaded,
                    inv, returned >>

\* The secret is rewritten in the secret store, outside the process.
RotateSecret ==
    /\ last = None
    /\ \E d \in Directories \ {secret} : secret' = d
    /\ UNCHANGED << cached_users, bucket, last, nreq, fetches, firstFetch, uploaded,
                    inv, returned >>

NoRace == << >>

(***************************************************************************)
(* The steps of authenticate and get_users, one invocation at a time, for  *)
(* invocations whose steps interleave.  Each step is one read or one       *)
(* write of the global _cached_users, or the fetch.                        *)
(***************************************************************************)
Invocations == 1..NumInvocations

Entered(h) ==
    [pc |-> "test", username |-> Credentials([auth |-> Some(h)]).username,
     password |-> Credentials([auth |-> Some(h)]).password,
     resp |-> None, users |-> None, result |-> None]

EnteredStates == {Entered(h) : h \in RaceHeaders}

\* authenticate up to the call of get_users, for a header that reaches it.
Enter(p) ==
    /\ inv[p].pc = "start"
    /\ \E rec \in EnteredStates : inv' = [inv EXCEPT ![p] = rec]
    /\ UNCHANGED << secret, cached_users, bucket, last, nreq, fetches, firstFetch,
                    uploaded, returned >>

\* `if _cached_users:`
TestCache(p) ==
    /\ inv[p].pc = "test"
    /\ inv' = [inv EXCEPT ![p].pc = IF CacheHit(cached_users) THEN "hit" ELSE "fetch"]
    /\ UNCHANGED << secret, cached_users, bucket, last, nreq, fetches, firstFetch,
                    uploaded, returned >>

\* `return _cached_users` of the cached branch: a second read of the global.
ReturnCached(p) ==
    /\ inv[p].pc = "hit"
    /\ inv' = [inv EXCEPT ![p].pc = "decide", ![p].users = cached_users]
    /\ UNCHANGED << secret, cached_users, bucket, last, nreq, fetches, firstFetch,
                    uploaded, returned >>

\* `resp = secrets.get_secret_value(SecretId=SECRET_NAME)`
FetchSecret(p) ==
    /\ inv[p].pc = "fetch"
    /\ inv' = [inv EXCEPT ![p].pc = "store", ![p].resp = Some(secret)]
    /\ returned' = returned \cup {secret}
    /\ UNCHANGED << secret, cached_users, bucket, last, nreq, fetches, firstFetch,
                    uploaded >>

\* `_cached_users = json.loads(resp["SecretString"])`
AssignCache(p) ==
    /\ inv[p].pc = "store"
    /\ cached_users' = StoreCache(cached_users, inv[p].resp[1])
    /\ inv' = [inv EXCEPT ![p].pc = "ret"]
    /\ UNCHANGED << secret, bucket, last, nreq, fetches, firstFetch, uploaded, returned >>

\* `return _cached_users` after the assignment: a read of the global.
ReturnFetched(p) ==
    /\ inv[p].pc = "ret"
    /\ inv' = [inv EXCEPT ![p].pc = "decide", ![p].users = cached_users]
    /\ UNCHANGED << secret, cached_users, bucket, last, nreq, fetches, firstFetch,
                    uploaded, returned >>

\* The lookup of the user in the directory get_users returned.
DecideStep(p) ==
    /\ inv[p].pc = "decide"
    /\ inv' = [inv EXCEPT ![p].pc = "done",
                          ![p].result = Decide(inv[p].users[1], inv[p].username,
                                               inv[p].password).folder]
    /\ UNCHANGED << secret, cached_users, bucket, last, nreq, fetches, firstFetch,
                    uploaded, returned >>

(***************************************************************************)
(* Spec: one process serving invocations one after the other against the   *)
(* bucket, with the directory DirMain in the secret store.                 *)
(***************************************************************************)
Init ==
    /\ secret = DirMain
    /\ cached_users = None
    /\ bucket \in InitialBuckets
    /\ last = None
    /\ nreq = 0
    /\ fetches = 0
    /\ firstFetch = None
    /\ uploaded = << >>
    /\ inv = NoRace
    /\ returned = {}

Next ==
    \/ OptionsRequest
    \/ UnauthorizedRequest
    \/ PutRequest
    \/ PutMalformedRequest
    \/ GetRequest
    \/ ListRequest
    \/ ListFilesRequest
    \/ DownloadFolderRequest
    \/ DeleteRequest
    \/ DeleteFolderRequest
    \/ MissingParameterRequest
    \/ OffRouteRequest
    \/ Return

Spec == Init /\ [][Next]_vars

(***************************************************************************)
(* SpecAuth: one process serving invocations one after the other while     *)
(* the secret is rewritten between them.                                   *)
(***************************************************************************)
InitAuth ==
    /\ secret \in Directories
    /\ cached_users = None
    /\ bucket = BucketSeeded
    /\ last = None
    /\ nreq = 0
    /\ fetches = 0
    /\ firstFetch = None
    /\ uploaded = << >>
    /\ inv = NoRace
    /\ returned = {}

NextAuth ==
    \/ AuthRequest
    \/ UnauthorizedRequest
    \/ OptionsRequest
    \/ Return
    \/ RotateSecret

SpecAuth == InitAuth /\ [][NextAuth]_vars

(***************************************************************************)
(* SpecRace: NumInvocations invocations of one process, their steps        *)
(* interleaved in every order, while the secret is rewritten.              *)
(***************************************************************************)
InitRace ==
    /\ secret \in Directories
    /\ cached_users = None
    /\ bucket = BucketEmpty
    /\ last = None
    /\ nreq = 0
    /\ fetches = 0
    /\ firstFetch = None
    /\ uploaded = << >>
    /\ inv = [p \in Invocations |->
                 [pc |-> "start", username |-> "", password |-> "",
                  resp |-> None, users |-> None, result |-> None]]
    /\ returned = {}

NextRace ==
    \/ \E p \in Invocations : Enter(p)
    \/ \E p \in Invocations : TestCache(p)
    \/ \E p \in Invocations : ReturnCached(p)
    \/ \E p \in Invocations : FetchSecret(p)
    \/ \E p \in Invocations : AssignCache(p)
    \/ \E p \in Invocations : ReturnFetched(p)
    \/ \E p \in Invocations : DecideStep(p)
    \/ RotateSecret

SpecRace == InitRace /\ [][NextRace]_vars

(***************************************************************************)
(* Properties.                                                             *)
(***************************************************************************)
\* An invocation has just ended; L is its record.
Done == last # None

L == last[1]

\* C1, as claimed: authenticate returns (username, root_folder) when the
\* header is "Basic " followed by the base64 of username:password for a
\* user of the directory with that password, and (None, None) for every
\* other request.
C1_AuthExactlyCanonical ==
    (Done /\ L.route # "options") =>
        LET D     == L.directory
            valid == {u \in DOMAIN D : L.event.auth = Some(BasicHeader(u, D[u].password))}
        IN  IF valid # {}
            THEN \E u \in valid : L.user = Some(u) /\ L.folder = Some(D[u].root_folder)
            ELSE L.user = None /\ L.folder = None

\* C1, amended: (a) the canonical header of a user whose name holds no ":"
\* authenticates as that user with that user's root folder; (b) whatever
\* authenticates is a "Basic " header whose remainder, decoded as
\* b64decode and UTF-8 decode it, is username ":" password for a user of
\* the directory, a name without ":" and exactly the stored password, and
\* the folder returned is that user's; every other request gets (None, None).
C1_AuthByDecodedCredentials ==
    (Done /\ L.route # "options") =>
        LET D    == L.directory
            auth == L.event.auth
        IN  /\ \A u \in DOMAIN D :
                   (~Contains(u, ":") /\ auth = Some(BasicHeader(u, D[u].password)))
                       => (L.user = Some(u) /\ L.folder = Some(D[u].root_folder))
            /\ (L.user = None) <=> (L.folder = None)
            /\ L.user # None =>
                   /\ auth # None
                   /\ StartsWith(auth[1], "Basic ")
                   /\ B64Decode(DropFirst(auth[1], 6)).ok
                   /\ L.user[1] \in DOMAIN D
                   /\ ~Contains(L.user[1], ":")
                   /\ Utf8Decode(B64Decode(DropFirst(auth[1], 6)).data)
                          = [ok |-> TRUE,
                             text |-> L.user[1] \o ":" \o D[L.user[1]].password]
                   /\ L.folder = Some(D[L.user[1]].root_folder)

\* A header that is not the canonical encoding of a:p has authenticated a.
C1_Witness ==
    /\ Done
    /\ L.user = Some("a")
    /\ L.event.auth = Some(BasicHeader("a", "p") \o "!")
    /\ L.folder = Some("a/")

\* C2: a request that is not OPTIONS and that authenticate answers with
\* (None, None) gets 401 with the body {"error": "Unauthorized"}, no storage
\* call is made for it and the bucket is as before.
C2_UnauthorizedIs401 ==
    [][LET after == last'
       IN  (after # None /\ after[1].event.httpMethod # "OPTIONS" /\ after[1].user = None)
               => /\ after[1].resp.statusCode = 401
                  /\ after[1].resp.body = "{\"error\": \"Unauthorized\"}"
                  /\ after[1].calls = << >>
                  /\ bucket' = bucket]_vars

\* A folder delete without credentials was refused while the bucket held objects.
C2_Witness ==
    /\ Done
    /\ L.event.httpMethod = "DELETE"
    /\ L.event.path = "/delete-folder"
    /\ L.event.auth = None
    /\ L.resp.statusCode = 401
    /\ bucket = BucketSeeded

\* What a download must return for an upload: the bytes uploaded, or the
\* single space stored for the empty body of a folder marker.
ExpectedDownload(up) ==
    IF EndsWith(up.filename, "/") /\ up.data = << >> THEN << 32 >> ELSE up.data

\* The uploads that the download just served answers: same user, same
\* filename, no write or delete of the key since.
UploadsServed ==
    {k \in DOMAIN uploaded :
        uploaded[k].user = L.user[1] /\ uploaded[k].filename = L.event.filename[1]}

\* C3, as claimed: GET /get of filename F after PUT /put of bytes B at F by
\* the same user returns 200 with a body that decodes to exactly B.
C3_RoundTripExact ==
    (Done /\ L.route = "get") =>
        \A k \in UploadsServed :
            /\ L.resp.statusCode = 200
            /\ B64Decode(L.resp.body).data = uploaded[k].data

\* C3, amended: for a non-empty filename F, the download returns 200 with a
\* base64 body that decodes to B, except that an empty B uploaded at an F
\* ending in "/" comes back as the single space stored in its place.
C3_RoundTripUpToPlaceholder ==
    (Done /\ L.route = "get") =>
        \A k \in UploadsServed :
            /\ L.resp.statusCode = 200
            /\ L.resp.isBase64Encoded
            /\ B64Decode(L.resp.body).ok
            /\ B64Decode(L.resp.body).data = ExpectedDownload(uploaded[k])

\* The bytes "hi" uploaded at s/f have been downloaded again.
C3_Witness ==
    /\ Done
    /\ L.route = "get"
    /\ L.event.filename = Some("s/f")
    /\ \E k \in UploadsServed : uploaded[k].data = << 104, 105 >>
    /\ L.resp.body = "aGk="

\* C4: /list-files without a prefix returns only names without "/" such
\* that root folder + name is a stored key; with a prefix P it returns only
\* non-empty names without "/" such that root folder + P + name is a stored
\* key, and every listed key of that form has its name returned.
C4_ListFilesImmediateChildren ==
    (Done /\ L.route = "list-files") =>
        LET R      == L.folder[1]
            names  == Range(L.files)
            listed == Range(L.calls[1].keys)
        IN  IF ~Truthy(L.event.prefix)
            THEN \A n \in names : ~Contains(n, "/") /\ (R \o n) \in DOMAIN bucket
            ELSE LET P == L.event.prefix[1]
                 IN  /\ \A n \in names :
                            n # "" /\ ~Contains(n, "/") /\ (R \o P \o n) \in DOMAIN bucket
                     /\ \A k \in listed :
                            (/\ StartsWith(k, R \o P)
                             /\ DropFirst(k, Len(R \o P)) # ""
                             /\ ~Contains(DropFirst(k, Len(R \o P)), "/"))
                                => DropFirst(k, Len(R \o P)) \in names

\* The operation a (method, path suffix) pair selects, when that operation
\* requires a parameter that the request leaves out or leaves empty.
MissingRequired(event) ==
    \/ /\ event.httpMethod = "PUT" /\ EndsWith(event.path, "/put")
       /\ ~Truthy(event.filename)
    \/ /\ event.httpMethod = "GET" /\ EndsWith(event.path, "/get")
       /\ ~Truthy(event.filename)
    \/ /\ event.httpMethod = "DELETE" /\ EndsWith(event.path, "/delete")
       /\ ~Truthy(event.filename)
    \/ /\ event.httpMethod = "GET" /\ EndsWith(event.path, "/download-folder")
       /\ ~Truthy(event.prefix)
    \/ /\ event.httpMethod = "DELETE" /\ EndsWith(event.path, "/delete-folder")
       /\ ~Truthy(event.prefix)

C6_DeleteFolder ==
    [][LET after == last'
       IN  (after # None /\ after[1].route = "delete-folder") =>
               LET R      == after[1].folder[1]
                   P      == after[1].event.prefix[1]
                   target == IF StartsWith(P, R) THEN P ELSE R \o P
                   calls  == after[1].calls
               IN  /\ calls[1].op = "list_objects_v2"
                   /\ calls[1].arg = target
                   /\ after[1].resp.statusCode = 200
                   /\ after[1].resp.body = "Folder \"" \o P \o "\" deleted"
                   /\ IF calls[1].keys = << >>
                      THEN Len(calls) = 1 /\ bucket' = bucket
                      ELSE /\ Len(calls) = 2
                           /\ calls[2].op = "delete_objects"
                           /\ calls[2].keys = calls[1].keys
                           /\ DOMAIN bucket' = (DOMAIN bucket) \ Range(calls[1].keys)
                           /\ \A k \in DOMAIN bucket :
                                  ~StartsWith(k, target)
                                      => (k \in DOMAIN bucket' /\ bucket'[k] = bucket[k])]_vars

\* A folder delete found nothing under its prefix in a bucket that holds objects.
C6_Witness ==
    /\ Done
    /\ L.route = "delete-folder"
    /\ L.event.prefix = Some("zz/")
    /\ Len(L.calls) = 1
    /\ L.resp.body = "Folder \"zz/\" deleted"
    /\ bucket = BucketSeeded

\* C7: the secret store is fetched at most once in the life of the
\* process, and every authentication decision made after that fetch uses
\* the directory it returned, whatever the secret store holds by then.
C7_FetchedOnce ==
    /\ fetches <= 1
    /\ (Done /\ L.users # None) => L.users = firstFetch

\* C8: an OPTIONS request is answered 200 with an empty body and the CORS
\* headers, without authentication: no fetch from the secret store, the
\* cache as before, no storage call, the bucket as before.
C8_Preflight ==
    [][LET after == last'
       IN  (after # None /\ after[1].event.httpMethod = "OPTIONS") =>
               /\ after[1].resp.statusCode = 200
               /\ after[1].resp.body = ""
               /\ ~after[1].resp.isBase64Encoded
               /\ DOMAIN after[1].resp.headers =
                      {"Access-Control-Allow-Origin", "Access-Control-Allow-Methods",
                       "Access-Control-Allow-Headers", "Access-Control-Expose-Headers"}
               /\ after[1].resp.headers["Access-Control-Allow-Origin"] = "*"
               /\ after[1].resp.headers["Access-Control-Allow-Methods"]
                      = "GET, PUT, DELETE, OPTIONS"
               /\ after[1].resp.headers["Access-Control-Allow-Headers"] = "Content-Type"
               /\ after[1].resp.headers["Access-Control-Expose-Headers"] = "*"
               /\ after[1].calls = << >>
               /\ after[1].users = None
               /\ fetches' = fetches
               /\ cached_users' = cached_users
               /\ bucket' = bucket]_vars

\* A preflight request that carries valid credentials has been answered
\* by a process whose cache is still unpopulated.
C8_Witness ==
    /\ Done
    /\ L.event.httpMethod = "OPTIONS"
    /\ L.event.path = "/delete-folder"
    /\ L.event.auth = Some(BasicHeader("a", "p"))
    /\ L.resp.statusCode = 200
    /\ cached_users = None
    /\ fetches = 0

\* C9: with interleaved invocations, the cache is unpopulated or is one
\* directory that the secret store returned to some fetch, and the
\* directory each invocation decides against is one such directory.
C9_CacheIsAFetchedDirectory ==
    /\ cached_users = None \/ cached_users[1] \in returned
    /\ \A p \in DOMAIN inv :
           /\ inv[p].users # None => inv[p].users[1] \in returned
           /\ inv[p].pc \in {"decide", "done"} => inv[p].users # None

\* Two invocations raced on the first population: both fetched, the secret
\* was rewritten in between, and both have decided.
C9_Witness ==
    \E p, q \in DOMAIN inv :
        /\ inv[p].pc = "done" /\ inv[q].pc = "done"
        /\ inv[p].resp # None /\ inv[q].resp # None
        /\ inv[p].resp # inv[q].resp
        /\ inv[p].resp # Some(DirEmpty) /\ inv[q].resp # Some(DirEmpty)

\* C10: every key or prefix an authenticated request passes to a storage
\* call starts with the user's root folder, and so does every key whose
\* object the request created, overwrote or deleted.
C10_KeyConfinement ==
    [][LET after == last'
       IN  (after # None /\ after[1].authenticated) =>
               LET R == after[1].folder[1]
               IN  /\ \A i \in 1..Len(after[1].calls) :
                          /\ after[1].calls[i].op # "delete_objects"
                                 => StartsWith(after[1].calls[i].arg, R)
                          /\ \A k \in Range(after[1].calls[i].keys) : StartsWith(k, R)
                   /\ \A k \in (DOMAIN bucket) \cup (DOMAIN bucket') :
                          (k \notin DOMAIN bucket \/ k \notin DOMAIN bucket'
                           \/ bucket'[k] # bucket[k]) => StartsWith(k, R)]_vars

\* User b has uploaded at the filename "a/f", which names user a's folder.
C10_Witness ==
    /\ Done
    /\ L.route = "put"
    /\ L.user = Some("b")
    /\ L.event.filename = Some("a/f")
    /\ L.calls # << >>
    /\ "b/a/f" \in DOMAIN bucket
====
